---- MODULE Spec2Model ----
(***************************************************************************)
(* Lesion-wise evaluation of a predicted tumour segmentation against a     *)
(* ground truth (eval.py).  A volume is a record                           *)
(*     [shape |-> <<nx, ny, nz>>, data |-> [Vox(shape) -> value]]          *)
(* Real-valued results are exact rationals <<num, den>> (den > 0, lowest   *)
(* terms); NaN is <<0, 0>> and +infinity is <<1, 0>>.                      *)
(***************************************************************************)
EXTENDS Integers, Sequences, FiniteSets, TLC

----------------------------------------------------------------------------
(* Bounds of the model *)

\* extent of the volumes (NX x 1 x 1) of the runs of get_LesionWiseResults
NX == 6
\* largest number of foreground voxels of their ground-truth volumes
MaxGTVox == 3
\* largest number of foreground voxels of their predictions
MaxPredVox == 2
\* extent of the volumes (SX x 1 x 1) of the runs of get_LesionWiseScores alone
SX == 5
\* largest number of foreground voxels of their ground-truth volumes
MaxScoreGTVox == 2
\* side of the cube (GN x GN x GN) of the dilation / merge runs on two voxels
GN == 4
\* extents of the strip (LX x LY x 1) of the dilation / merge runs on several voxels
LX == 7
LY == 2
\* largest number of foreground voxels of a ground-truth mask on the strip
MaxMergeVox == 3
\* extent of the volumes (TX x 1 x 1) of the tissue-masking runs
TX == 2

----------------------------------------------------------------------------
(* Program constants *)

\* metric_df.replace(np.inf, 374) and len(fp)*374
HD95Penalty == 374
\* metric_df['gt_lesion_vol'] > 5
VolThreshold == 5

\* IEEE special values, written like the rationals <<num, den>>
NaN == <<0, 0>>
Inf == <<1, 0>>

----------------------------------------------------------------------------
(* Arithmetic helpers: exact rationals standing for numpy float64 values *)

Abs(n) == IF n < 0 THEN -n ELSE n

RECURSIVE GCD(_, _)
GCD(a, b) == IF b = 0 THEN a ELSE GCD(b, a % b)

\* the float n/d, d > 0
Rat(n, d) == LET g == GCD(Abs(n), d) IN <<n \div g, d \div g>>

\* float addition; NaN absorbs, then +infinity
RatAdd(a, b) ==
    IF a = NaN \/ b = NaN THEN NaN
    ELSE IF a = Inf \/ b = Inf THEN Inf
    ELSE Rat(a[1] * b[2] + b[1] * a[2], a[2] * b[2])

\* true division of a non-negative float by a count k >= 0.  k = 0: numpy
\* gives NaN for 0/0 and +infinity for x/0, and where Python raises
\* ZeroDivisionError instead the handlers of lines 301 and 306 store NaN
RatDivInt(a, k) ==
    IF a = NaN THEN NaN
    ELSE IF a = Inf THEN Inf
    ELSE IF k = 0 THEN (IF a[1] = 0 THEN NaN ELSE Inf)
    ELSE Rat(a[1], a[2] * k)

RECURSIVE SeqSum(_)
SeqSum(s) == IF s = << >> THEN <<0, 1>> ELSE RatAdd(Head(s), SeqSum(Tail(s)))

Min(S) == CHOOSE x \in S : \A y \in S : x <= y
Max(S) == CHOOSE x \in S : \A y \in S : x >= y

\* np.unique: the distinct values in ascending order
RECURSIVE SortedSeq(_)
SortedSeq(S) == IF S = {} THEN << >> ELSE <<Min(S)>> \o SortedSeq(S \ {Min(S)})

Range(s) == {s[i] : i \in DOMAIN s}

\* the subsets of S with at most k elements
RECURSIVE SubsetsUpTo(_, _)
SubsetsUpTo(S, k) ==
    IF k = 0 THEN {{}}
    ELSE LET P == SubsetsUpTo(S, k - 1) IN P \cup {T \cup {x} : T \in P, x \in S}

----------------------------------------------------------------------------
(* Volumes *)

Vox(shape) == (0 .. shape[1] - 1) \X (0 .. shape[2] - 1) \X (0 .. shape[3] - 1)

Volume(shape, data) == [shape |-> shape, data |-> data]

\* the voxels with a nonzero value
Support(m) == {v \in DOMAIN m.data : m.data[v] # 0}

\* np.sum of a 0/1 array
VoxSum(m) == Cardinality({v \in DOMAIN m.data : m.data[v] = 1})

\* np.max of a component map
MaxId(m) == IF Support(m) = {} THEN 0 ELSE Max({m.data[v] : v \in Support(m)})

\* np.zeros_like
zeros_like(m) == Volume(m.shape, [v \in Vox(m.shape) |-> 0])

\* label volumes of a shape with at most k nonzero voxels, labelled from labels
LabelVolumes(shape, labels, k) ==
    UNION {{Volume(shape, [v \in Vox(shape) |-> IF v \in S THEN f[v] ELSE 0]) :
               f \in [S -> labels]} : S \in SubsetsUpTo(Vox(shape), k)}

\* label volumes of a shape with at most k nonzero voxels, all of one label
UniformVolumes(shape, labels, k) ==
    {Volume(shape, [v \in Vox(shape) |-> IF v \in S THEN lab ELSE 0]) :
        S \in SubsetsUpTo(Vox(shape), k), lab \in labels}

----------------------------------------------------------------------------
(* dice, lines 10-33 *)

\* lines 27-28: the ValueError "Shape mismatch"
DiceRaises(im1, im2) == im1.shape # im2.shape

\* lines 24-25, 31-33, for arguments of one shape; 0/0 is NaN
dice(im1, im2) ==
    LET a == Support(im1)
        b == Support(im2)
        den == Cardinality(a) + Cardinality(b)
    IN IF den = 0 THEN NaN ELSE Rat(2 * Cardinality(a \cap b), den)

----------------------------------------------------------------------------
(* get_TissueWiseSeg, lines 35-74 *)

Tissues == <<"WT", "TC", "ET">>

\* the two np.place calls on one matrix
TissuePlace(mat, keep) ==
    LET zeroed == [v \in DOMAIN mat.data |->
                      IF mat.data[v] \in keep THEN mat.data[v] ELSE 0]
    IN Volume(mat.shape, [v \in DOMAIN mat.data |-> IF zeroed[v] > 0 THEN 1 ELSE zeroed[v]])

\* variant: the tumour core taken as the labels 1 and 2
get_TissueWiseSeg_CoreWithEdema(prediction_matrix, gt_matrix, tissue_type) ==
    IF tissue_type = "WT"
    THEN <<TissuePlace(prediction_matrix, {1, 2, 3}), TissuePlace(gt_matrix, {1, 2, 3})>>
    ELSE IF tissue_type = "TC"
    THEN <<TissuePlace(prediction_matrix, {1, 2}), TissuePlace(gt_matrix, {1, 2})>>
    ELSE IF tissue_type = "ET"
    THEN <<TissuePlace(prediction_matrix, {3}), TissuePlace(gt_matrix, {3})>>
    ELSE <<prediction_matrix, gt_matrix>>

get_TissueWiseSeg(prediction_matrix, gt_matrix, tissue_type) ==
    IF tissue_type = "WT"
    THEN <<TissuePlace(prediction_matrix, {1, 2, 3}), TissuePlace(gt_matrix, {1, 2, 3})>>
    ELSE IF tissue_type = "TC"
    THEN <<TissuePlace(prediction_matrix, {1, 3}), TissuePlace(gt_matrix, {1, 3})>>
    ELSE IF tissue_type = "ET"
    THEN <<TissuePlace(prediction_matrix, {3}), TissuePlace(gt_matrix, {3})>>
    ELSE <<prediction_matrix, gt_matrix>>

----------------------------------------------------------------------------
(* Connected components and dilation, lines 170-176 *)

\* variant: the full 3 x 3 x 3 element, corners included
generate_binary_structure_Full(connectivity) == (-1 .. 1) \X (-1 .. 1) \X (-1 .. 1)

\* scipy.ndimage.generate_binary_structure(3, connectivity): the offsets
\* whose squared distance from the centre is at most connectivity
generate_binary_structure(connectivity) ==
    {d \in (-1 .. 1) \X (-1 .. 1) \X (-1 .. 1) :
        Abs(d[1]) + Abs(d[2]) + Abs(d[3]) <= connectivity}

\* variant: no dilation (iterations = 0)
binary_dilation_None(mask, structure) == mask

\* scipy.ndimage.binary_dilation, one iteration, border value 0
binary_dilation(mask, structure) ==
    LET fg == Support(mask)
    IN Volume(mask.shape,
              [v \in Vox(mask.shape) |->
                  IF \E d \in structure :
                        <<v[1] - d[1], v[2] - d[2], v[3] - d[3]>> \in fg
                  THEN 1 ELSE 0])

\* 26-neighbourhood: face, edge or corner adjacency
Adjacent26(u, v) ==
    /\ u # v
    /\ Abs(u[1] - v[1]) <= 1
    /\ Abs(u[2] - v[2]) <= 1
    /\ Abs(u[3] - v[3]) <= 1

\* position of a voxel in the memory scan: "F" has the first index fastest
\* (arrays loaded from NIfTI), "C" the last (arrays allocated by scipy)
ScanIndex(v, shape, order) ==
    IF order = "F"
    THEN v[1] + shape[1] * (v[2] + shape[2] * v[3])
    ELSE v[3] + shape[3] * (v[2] + shape[2] * v[1])

\* the voxels of fg connected to the set seen through frontier
RECURSIVE Flood(_, _, _)
Flood(frontier, seen, fg) ==
    IF frontier = {} THEN seen
    ELSE LET next == {v \in fg \ seen : \E u \in frontier : Adjacent26(u, v)}
         IN Flood(next, seen \cup next, fg)

\* ids 1..K in the order the scan first meets each component
RECURSIVE LabelFrom(_, _, _, _, _)
LabelFrom(rest, id, acc, shape, order) ==
    IF rest = {} THEN acc
    ELSE LET first == CHOOSE v \in rest :
                         \A w \in rest : ScanIndex(v, shape, order) <= ScanIndex(w, shape, order)
             comp == Flood({first}, {first}, rest)
         IN LabelFrom(rest \ comp, id + 1,
                      [v \in DOMAIN acc |-> IF v \in comp THEN id ELSE acc[v]],
                      shape, order)

\* cc3d.connected_components(mask, connectivity=26)
connected_components(mask, order) ==
    Volume(mask.shape,
           LabelFrom(Support(mask), 1, [v \in Vox(mask.shape) |-> 0], mask.shape, order))

----------------------------------------------------------------------------
(* get_GTseg_combinedByDilation, lines 77-109 *)

\* variant: line 106 left out, the original ids are added
MergeTerm_NoRelabel(gt_dilated_cc_mat, gt_label_cc, comp) ==
    Volume(gt_dilated_cc_mat.shape,
           [v \in Vox(gt_dilated_cc_mat.shape) |->
               IF gt_dilated_cc_mat.data[v] = comp THEN gt_label_cc.data[v] ELSE 0])

\* the body of the loop for one comp (already incremented), lines 102-106
MergeTerm(gt_dilated_cc_mat, gt_label_cc, comp) ==
    LET gt_d_tmp == [v \in Vox(gt_dilated_cc_mat.shape) |->
                        IF gt_dilated_cc_mat.data[v] = comp THEN 1 ELSE 0]
        prod == [v \in Vox(gt_dilated_cc_mat.shape) |-> gt_label_cc.data[v] * gt_d_tmp[v]]
    IN Volume(gt_dilated_cc_mat.shape,
              [v \in Vox(gt_dilated_cc_mat.shape) |-> IF prod[v] > 0 THEN comp ELSE prod[v]])

\* gt_seg_combinedByDilation_mat += gt_d_tmp, line 107
MergeAdd(acc, term) ==
    Volume(acc.shape, [v \in Vox(acc.shape) |-> acc.data[v] + term.data[v]])

RECURSIVE MergeLoop(_, _, _, _)
MergeLoop(gt_dilated_cc_mat, gt_label_cc, comp, acc) ==
    IF comp > MaxId(gt_dilated_cc_mat) THEN acc
    ELSE MergeLoop(gt_dilated_cc_mat, gt_label_cc, comp + 1,
                   MergeAdd(acc, MergeTerm(gt_dilated_cc_mat, gt_label_cc, comp)))

get_GTseg_combinedByDilation(gt_dilated_cc_mat, gt_label_cc) ==
    MergeLoop(gt_dilated_cc_mat, gt_label_cc, 1, zeros_like(gt_dilated_cc_mat))

----------------------------------------------------------------------------
(* get_sensitivity_and_specificity, lines 239-258.  sys.float_info.min is
   absorbed by any nonzero denominator and makes 0/0 equal to 0. *)

get_sensitivity_and_specificity(result_array, target_array) ==
    LET iC == VoxSum(result_array)
        rC == VoxSum(target_array)
        TP == Cardinality({v \in DOMAIN result_array.data :
                              result_array.data[v] = 1 /\ target_array.data[v] = 1})
        FP == iC - TP
        FN == rC - TP
        TN == Cardinality({v \in DOMAIN result_array.data :
                              result_array.data[v] # 1 /\ target_array.data[v] # 1})
        Sens == IF TP + FN = 0 THEN <<0, 1>> ELSE Rat(TP, TP + FN)
        Spec_ == IF TN + FP = 0 THEN <<0, 1>> ELSE Rat(TN, TN + FP)
    IN <<IF iC = 0 /\ rC = 0 THEN <<1, 1>> ELSE Sens, Spec_>>

----------------------------------------------------------------------------
(* get_LesionWiseScores, lines 112-236 *)

\* surface_distance.compute_surface_distances + compute_robust_hausdorff(., 95),
\* lines 220-221: +infinity when either mask has no surface, otherwise the finite
\* distance the library computes, supplied here as fin
compute_robust_hausdorff(gt_tmp, pred_tmp, fin) ==
    IF Support(gt_tmp) = {} \/ Support(pred_tmp) = {} THEN Inf ELSE <<fin, 1>>

\* lines 199-200: the 0/1 mask of one merged lesion
LesionMask(gt_label_cc_, gtcomp) ==
    Volume(gt_label_cc_.shape,
           [v \in DOMAIN gt_label_cc_.data |-> IF gt_label_cc_.data[v] = gtcomp THEN 1 ELSE 0])

\* lines 206-209: np.unique(pred_label_cc * gt_tmp) without 0, ascending
IntersectingCC(pred_label_cc, gt_tmp) ==
    SortedSeq({pred_label_cc.data[v] * gt_tmp.data[v] : v \in DOMAIN gt_tmp.data} \ {0})

\* lines 214-216: the predicted components in intersecting_cc, binarised
IsolatedPrediction(pred_label_cc, intersecting_cc) ==
    Volume(pred_label_cc.shape,
           [v \in DOMAIN pred_label_cc.data |->
               IF pred_label_cc.data[v] \in Range(intersecting_cc) THEN 1 ELSE 0])

\* variant: a predicted id enters tp only once
LesionIter_Dedup(gt_label_cc_, pred_label_cc, spacing, hd, gtcomp, acc) ==
    LET gt_tmp == LesionMask(gt_label_cc_, gtcomp)
        gt_vol == VoxSum(gt_tmp) * spacing[1] * spacing[2] * spacing[3]
        intersecting_cc == IntersectingCC(pred_label_cc, gt_tmp)
        pred_tmp == IsolatedPrediction(pred_label_cc, intersecting_cc)
        pair == [predicted_lesion_numbers |-> intersecting_cc,
                 gt_lesion_numbers |-> gtcomp,
                 gt_lesion_vol |-> gt_vol,
                 dice_lesionwise |-> dice(pred_tmp, gt_tmp),
                 hd95_lesionwise |-> compute_robust_hausdorff(gt_tmp, pred_tmp, hd[gtcomp])]
    IN [tp |-> acc.tp \o SelectSeq(intersecting_cc, LAMBDA c : c \notin Range(acc.tp)),
        metric_pairs |-> Append(acc.metric_pairs, pair),
        gt_tp |-> IF Len(intersecting_cc) > 0 THEN Append(acc.gt_tp, gtcomp) ELSE acc.gt_tp,
        fn |-> IF Len(intersecting_cc) > 0 THEN acc.fn ELSE Append(acc.fn, gtcomp)]

\* one iteration of the loop of lines 195-230; acc holds tp, fn, gt_tp, metric_pairs
LesionIter(gt_label_cc_, pred_label_cc, spacing, hd, gtcomp, acc) ==
    LET gt_tmp == LesionMask(gt_label_cc_, gtcomp)
        gt_vol == VoxSum(gt_tmp) * spacing[1] * spacing[2] * spacing[3]
        intersecting_cc == IntersectingCC(pred_label_cc, gt_tmp)
        pred_tmp == IsolatedPrediction(pred_label_cc, intersecting_cc)
        dice_score == dice(pred_tmp, gt_tmp)
        hd95 == compute_robust_hausdorff(gt_tmp, pred_tmp, hd[gtcomp])
        pair == [predicted_lesion_numbers |-> intersecting_cc,
                 gt_lesion_numbers |-> gtcomp,
                 gt_lesion_vol |-> gt_vol,
                 dice_lesionwise |-> dice_score,
                 hd95_lesionwise |-> hd95]
    IN [tp |-> acc.tp \o intersecting_cc,
        metric_pairs |-> Append(acc.metric_pairs, pair),
        gt_tp |-> IF Len(intersecting_cc) > 0 THEN Append(acc.gt_tp, gtcomp) ELSE acc.gt_tp,
        fn |-> IF Len(intersecting_cc) > 0 THEN acc.fn ELSE Append(acc.fn, gtcomp)]

\* variant: the loop stops one lesion early
RECURSIVE LesionLoop_SkipLast(_, _, _, _, _, _)
LesionLoop_SkipLast(gt_label_cc_, pred_label_cc, spacing, hd, gtcomp, acc) ==
    IF gtcomp >= MaxId(gt_label_cc_) THEN acc
    ELSE LesionLoop_SkipLast(gt_label_cc_, pred_label_cc, spacing, hd, gtcomp + 1,
                             LesionIter(gt_label_cc_, pred_label_cc, spacing, hd, gtcomp, acc))

RECURSIVE LesionLoop(_, _, _, _, _, _)
LesionLoop(gt_label_cc_, pred_label_cc, spacing, hd, gtcomp, acc) ==
    IF gtcomp > MaxId(gt_label_cc_) THEN acc
    ELSE LesionLoop(gt_label_cc_, pred_label_cc, spacing, hd, gtcomp + 1,
                    LesionIter(gt_label_cc_, pred_label_cc, spacing, hd, gtcomp, acc))

\* variant: the background id 0 is not excluded
FalsePositives_KeepZero(pred_label_cc, tp) ==
    SortedSeq({pred_label_cc.data[v] : v \in DOMAIN pred_label_cc.data} \ Range(tp))

\* lines 232-234: np.unique of the predicted ids not in tp + [0]
FalsePositives(pred_label_cc, tp) ==
    SortedSeq({pred_label_cc.data[v] : v \in DOMAIN pred_label_cc.data} \ (Range(tp) \cup {0}))

\* line 170
dilation_struct == generate_binary_structure(2)

\* lines 172, 175, 176: the two component maps handed to the merge
GTComponents(gt_mat) == connected_components(gt_mat, "F")
GTDilatedComponents(gt_mat) ==
    connected_components(binary_dilation(gt_mat, dilation_struct), "C")

\* line 155 raises: the masked volumes differ in shape
ScoresRaise(prediction_seg, gt_seg, label_value) ==
    LET seg == get_TissueWiseSeg(prediction_seg, gt_seg, label_value)
    IN DiceRaises(seg[1], seg[2])

\* prediction_seg, gt_seg: the volumes nib.load(...).get_fdata() returns;
\* spacing: header.get_zooms(); hd: the finite Hausdorff results per lesion.
\* The result is the returned tuple (line 236) together with the two component
\* maps of lines 186-187.  Defined for volumes of one shape.
get_LesionWiseScores(prediction_seg, gt_seg, label_value, spacing, hd) ==
    LET seg == get_TissueWiseSeg(prediction_seg, gt_seg, label_value)
        pred_mat == seg[1]
        gt_mat == seg[2]
        full_dice == dice(pred_mat, gt_mat)
        ss == get_sensitivity_and_specificity(pred_mat, gt_mat)
        voxvol == spacing[1] * spacing[2] * spacing[3]
        pred_mat_cc == connected_components(pred_mat, "F")
        gt_mat_combinedByDilation ==
            get_GTseg_combinedByDilation(GTDilatedComponents(gt_mat), GTComponents(gt_mat))
        loop == LesionLoop(gt_mat_combinedByDilation, pred_mat_cc, spacing, hd, 1,
                           [tp |-> << >>, fn |-> << >>, gt_tp |-> << >>,
                            metric_pairs |-> << >>])
    IN [tp |-> loop.tp,
        fn |-> loop.fn,
        fp |-> FalsePositives(pred_mat_cc, loop.tp),
        gt_tp |-> loop.gt_tp,
        metric_pairs |-> loop.metric_pairs,
        full_dice |-> full_dice,
        full_gt_vol |-> VoxSum(gt_mat) * voxvol,
        full_pred_vol |-> VoxSum(pred_mat) * voxvol,
        full_sens |-> ss[1],
        full_specs |-> ss[2],
        gt_label_cc |-> gt_mat_combinedByDilation,
        pred_label_cc |-> pred_mat_cc]

----------------------------------------------------------------------------
(* State *)

VARIABLES
    pred_file,      \* label volume stored in the prediction file
    gt_file,        \* label volume stored in the ground-truth file
    zooms,          \* voxel spacing (sx, sy, sz) of the prediction header
    hd_lib,         \* finite value the Hausdorff primitive returns, per lesion id
    pc,             \* position of the running function
    l,              \* index into label_values in get_LesionWiseResults
    scores,         \* the tuple last returned by get_LesionWiseScores
    final_lesionwise_metrics_df,  \* per-lesion rows kept so far
    lesion_wise,    \* <<lesion_wise_dice, lesion_wise_hd95>> of the last tissue
    final_metrics_dict,           \* rows of the report, one per tissue
    csv,            \* the written report, or "none"
    masks,          \* results of get_TissueWiseSeg, per tissue type
    gt_dilated_cc_mat,            \* arguments, loop counter and accumulator
    gt_label_cc,                  \*   of get_GTseg_combinedByDilation
    comp,
    gt_seg_combinedByDilation_mat,
    hits            \* per voxel: number of iterations that added a nonzero value

vars == <<pred_file, gt_file, zooms, hd_lib, pc, l, scores,
          final_lesionwise_metrics_df, lesion_wise, final_metrics_dict, csv, masks,
          gt_dilated_cc_mat, gt_label_cc, comp, gt_seg_combinedByDilation_mat, hits>>

pipelineVars == <<zooms, hd_lib, l, scores, final_lesionwise_metrics_df, lesion_wise,
                  final_metrics_dict, csv>>
mergeVars == <<gt_dilated_cc_mat, gt_label_cc, comp, gt_seg_combinedByDilation_mat, hits>>

None == "none"

----------------------------------------------------------------------------
(* Runs of get_GTseg_combinedByDilation on the maps that get_LesionWiseScores
   builds from a ground-truth mask (lines 170-181) *)

CubeShape == <<GN, GN, GN>>
StripShape == <<LX, LY, 1>>

\* label volumes of a shape with one or two voxels of label 1, placed anywhere
PairVolumes(shape) ==
    {Volume(shape, [v \in Vox(shape) |-> IF v \in {u, w} THEN 1 ELSE 0]) :
        u \in Vox(shape), w \in Vox(shape)}

\* ground-truth files of label 1: one or two voxels anywhere in the cube, or
\* at most MaxMergeVox voxels on the strip
MergeVolumes == PairVolumes(CubeShape) \cup UniformVolumes(StripShape, {1}, MaxMergeVox)

\* gt_mat of lines 148-152 for the whole tumour
WholeTumourMask(gt_seg) == get_TissueWiseSeg(gt_seg, gt_seg, "WT")[2]

InitMerge ==
    /\ gt_file \in MergeVolumes
    /\ pred_file = None
    /\ \E gt_mat \in {WholeTumourMask(gt_file)} :
          /\ gt_label_cc = GTComponents(gt_mat)
          /\ gt_dilated_cc_mat = GTDilatedComponents(gt_mat)
    /\ comp = 0
    /\ gt_seg_combinedByDilation_mat = zeros_like(gt_dilated_cc_mat)
    /\ hits = [v \in Vox(gt_file.shape) |-> 0]
    /\ pc = "merge"
    /\ masks = None
    /\ zooms = None /\ hd_lib = None /\ l = 0 /\ scores = None
    /\ final_lesionwise_metrics_df = << >> /\ lesion_wise = None
    /\ final_metrics_dict = << >> /\ csv = None

\* one iteration of the loop of lines 99-107
MergeIter ==
    /\ pc = "merge"
    /\ comp < MaxId(gt_dilated_cc_mat)
    /\ LET term == MergeTerm(gt_dilated_cc_mat, gt_label_cc, comp + 1)
       IN /\ gt_seg_combinedByDilation_mat' = MergeAdd(gt_seg_combinedByDilation_mat, term)
          /\ hits' = [v \in DOMAIN hits |->
                         IF term.data[v] # 0 THEN hits[v] + 1 ELSE hits[v]]
    /\ comp' = comp + 1
    /\ UNCHANGED <<pred_file, gt_file, pc, masks, gt_dilated_cc_mat, gt_label_cc>>
    /\ UNCHANGED pipelineVars

\* line 109
MergeReturn ==
    /\ pc = "merge"
    /\ comp >= MaxId(gt_dilated_cc_mat)
    /\ pc' = "merged"
    /\ UNCHANGED <<pred_file, gt_file, masks>>
    /\ UNCHANGED mergeVars
    /\ UNCHANGED pipelineVars

NextMerge == MergeIter \/ MergeReturn

SpecMerge == InitMerge /\ [][NextMerge]_vars

----------------------------------------------------------------------------
(* get_LesionWiseResults, lines 262-339 *)

\* line 279
label_values == Tissues

\* .sort_values(by = ['gt_lesion_numbers'], ascending=True), line 291
RECURSIVE SortByLesion(_)
SortByLesion(rows) ==
    IF rows = << >> THEN << >>
    ELSE LET k == Min({rows[i].gt_lesion_numbers : i \in DOMAIN rows})
             i == Min({j \in DOMAIN rows : rows[j].gt_lesion_numbers = k})
         IN <<rows[i]>> \o SortByLesion(SubSeq(rows, 1, i - 1) \o SubSeq(rows, i + 1, Len(rows)))

\* variant: the infinite values are kept
ReplaceInf_None(rows) == rows

\* metric_df.replace(np.inf, 374), line 294
ReplaceInf(rows) ==
    [i \in DOMAIN rows |->
        [rows[i] EXCEPT
            !.dice_lesionwise = IF @ = Inf THEN <<HD95Penalty, 1>> ELSE @,
            !.hd95_lesionwise = IF @ = Inf THEN <<HD95Penalty, 1>> ELSE @]]

\* lines 288-294
MetricDF(metric_pairs, label) ==
    LET sorted == ReplaceInf(SortByLesion(metric_pairs))
    IN [i \in DOMAIN sorted |->
           [predicted_lesion_numbers |-> sorted[i].predicted_lesion_numbers,
            gt_lesion_numbers |-> sorted[i].gt_lesion_numbers,
            gt_lesion_vol |-> sorted[i].gt_lesion_vol,
            dice_lesionwise |-> sorted[i].dice_lesionwise,
            hd95_lesionwise |-> sorted[i].hd95_lesionwise,
            Label |-> label]]

\* variant: the threshold is inclusive
Thresh5_AtLeast(metric_df) == SelectSeq(metric_df, LAMBDA r : r.gt_lesion_vol >= VolThreshold)

\* metric_df[metric_df['gt_lesion_vol'] > 5], line 297
Thresh5(metric_df) == SelectSeq(metric_df, LAMBDA r : r.gt_lesion_vol > VolThreshold)

\* lines 299-302
LesionWiseDice(metric_df_thresh5, fp) ==
    RatDivInt(SeqSum([i \in DOMAIN metric_df_thresh5 |-> metric_df_thresh5[i].dice_lesionwise]),
              Len(metric_df_thresh5) + Len(fp))

\* variant: false positives add 0 to the sum of distances
LesionWiseHD95_NoPenalty(metric_df_thresh5, fp) ==
    RatDivInt(SeqSum([i \in DOMAIN metric_df_thresh5 |->
                         metric_df_thresh5[i].hd95_lesionwise]),
              Len(metric_df_thresh5) + Len(fp))

\* lines 304-307
LesionWiseHD95(metric_df_thresh5, fp) ==
    RatDivInt(RatAdd(SeqSum([i \in DOMAIN metric_df_thresh5 |->
                                metric_df_thresh5[i].hd95_lesionwise]),
                     <<Len(fp) * HD95Penalty, 1>>),
              Len(metric_df_thresh5) + Len(fp))

\* lines 309-320, with the Labels column of line 331
MetricsDict(label, r, lesion_wise_dice, lesion_wise_hd95) ==
    [Labels |-> label,
     Num_GT_TP |-> Len(r.gt_tp),
     Num_TP |-> Len(r.tp),
     Num_FP |-> Len(r.fp),
     Num_FN |-> Len(r.fn),
     Sensitivity |-> r.full_sens,
     Specificity |-> r.full_specs,
     Complete_Dice |-> r.full_dice,
     GT_Complete_Volume |-> r.full_gt_vol,
     LesionWise_Score_Dice |-> lesion_wise_dice,
     LesionWise_Score_HD95 |-> lesion_wise_hd95]

PipelineShape == <<NX, 1, 1>>
ShortShape == <<NX - 1, 1, 1>>

\* the prediction files: at most MaxPredVox voxels, of label 3
PredLabels == {3}
PredVolumes == LabelVolumes(PipelineShape, PredLabels, MaxPredVox)

\* the ground-truth files: at most MaxGTVox voxels, of label 2 or of label 3
GTLabels == {2, 3}
GTVolumes == UniformVolumes(PipelineShape, GTLabels, MaxGTVox)
\* ground-truth files of another shape than the prediction
ShortGTVolumes == LabelVolumes(ShortShape, GTLabels, 1)

\* voxel spacings: voxel volumes 1, 5 and 6
Zooms == {<<1, 1, 1>>, <<5, 1, 1>>, <<2, 3, 1>>}

\* finite results of the Hausdorff primitive, by lesion id
HDTables == {[g \in 1 .. NX |-> 0], [g \in 1 .. NX |-> 2 * g + 1]}

Init ==
    /\ pred_file \in PredVolumes
    /\ gt_file \in GTVolumes \cup ShortGTVolumes
    /\ zooms \in Zooms
    /\ hd_lib \in HDTables
    /\ pc = "loop"
    /\ l = 0
    /\ scores = None
    /\ final_lesionwise_metrics_df = << >>
    /\ lesion_wise = None
    /\ final_metrics_dict = << >>
    /\ csv = None
    /\ masks = None
    /\ gt_dilated_cc_mat = None /\ gt_label_cc = None /\ comp = 0
    /\ gt_seg_combinedByDilation_mat = None /\ hits = None

\* one iteration of the loop of lines 281-322 that runs to its end
EvalTissue ==
    /\ pc = "loop"
    /\ l < Len(label_values)
    /\ ~ScoresRaise(pred_file, gt_file, label_values[l + 1])
    /\ \E r \in {get_LesionWiseScores(pred_file, gt_file, label_values[l + 1], zooms, hd_lib)} :
       LET metric_df == MetricDF(r.metric_pairs, label_values[l + 1])
           metric_df_thresh5 == Thresh5(metric_df)
           lesion_wise_dice == LesionWiseDice(metric_df_thresh5, r.fp)
           lesion_wise_hd95 == LesionWiseHD95(metric_df_thresh5, r.fp)
       IN /\ scores' = r
          /\ final_lesionwise_metrics_df' = final_lesionwise_metrics_df \o metric_df
          /\ lesion_wise' = <<lesion_wise_dice, lesion_wise_hd95>>
          /\ final_metrics_dict' =
                Append(final_metrics_dict,
                       MetricsDict(label_values[l + 1], r, lesion_wise_dice, lesion_wise_hd95))
    /\ l' = l + 1
    /\ UNCHANGED <<pred_file, gt_file, zooms, hd_lib, pc, csv, masks>>
    /\ UNCHANGED mergeVars

\* variant: the error is caught per tissue and the loop goes on
RaiseShapeMismatch_Caught ==
    /\ pc = "loop"
    /\ l < Len(label_values)
    /\ ScoresRaise(pred_file, gt_file, label_values[l + 1])
    /\ l' = l + 1
    /\ UNCHANGED <<pred_file, gt_file, masks, pc, zooms, hd_lib, scores,
                   final_lesionwise_metrics_df, lesion_wise, final_metrics_dict, csv>>
    /\ UNCHANGED mergeVars

\* the ValueError of dice (line 28) leaves get_LesionWiseScores (line 155) and
\* get_LesionWiseResults (line 282): nothing catches it
RaiseShapeMismatch ==
    /\ pc = "loop"
    /\ l < Len(label_values)
    /\ ScoresRaise(pred_file, gt_file, label_values[l + 1])
    /\ pc' = "raised"
    /\ UNCHANGED <<pred_file, gt_file, masks>>
    /\ UNCHANGED pipelineVars
    /\ UNCHANGED mergeVars

\* lines 330-339
WriteReport ==
    /\ pc = "loop"
    /\ l = Len(label_values)
    /\ csv' = final_metrics_dict
    /\ pc' = "done"
    /\ UNCHANGED <<pred_file, gt_file, zooms, hd_lib, l, scores,
                   final_lesionwise_metrics_df, lesion_wise, final_metrics_dict, masks>>
    /\ UNCHANGED mergeVars

Next == EvalTissue \/ RaiseShapeMismatch \/ WriteReport

Spec == Init /\ [][Next]_vars

----------------------------------------------------------------------------
(* Runs of get_TissueWiseSeg for the three tissue types on freshly loaded
   volumes (lines 136-152, once per entry of label_values) *)

TissueShape == <<TX, 1, 1>>

\* label values met in files: the labels 0..3 and a stray 4
FileLabels == 0 .. 4

TissueVolumes == {Volume(TissueShape, f) : f \in [Vox(TissueShape) -> FileLabels]}

InitTissue ==
    /\ pred_file \in TissueVolumes
    /\ gt_file \in TissueVolumes
    /\ masks = << >>
    /\ l = 0
    /\ pc = "tissue"
    /\ zooms = None /\ hd_lib = None /\ scores = None
    /\ final_lesionwise_metrics_df = << >> /\ lesion_wise = None
    /\ final_metrics_dict = << >> /\ csv = None
    /\ gt_dilated_cc_mat = None /\ gt_label_cc = None /\ comp = 0
    /\ gt_seg_combinedByDilation_mat = None /\ hits = None

\* lines 136-152 for label_values[l + 1]
TissueSeg ==
    /\ pc = "tissue"
    /\ l < Len(label_values)
    /\ masks' = Append(masks, get_TissueWiseSeg(pred_file, gt_file, label_values[l + 1]))
    /\ l' = l + 1
    /\ UNCHANGED <<pred_file, gt_file, pc, zooms, hd_lib, scores,
                   final_lesionwise_metrics_df, lesion_wise, final_metrics_dict, csv>>
    /\ UNCHANGED mergeVars

NextTissue == TissueSeg

SpecTissue == InitTissue /\ [][NextTissue]_vars

----------------------------------------------------------------------------
(* Runs of get_LesionWiseScores for one tissue type *)

ScoresShape == <<SX, 1, 1>>

\* any prediction mask of label 3; ground truths of at most MaxScoreGTVox
\* voxels labelled 2 or 3
ScoresPredVolumes == LabelVolumes(ScoresShape, PredLabels, SX)
ScoresGTVolumes == LabelVolumes(ScoresShape, GTLabels, MaxScoreGTVox)

InitScores ==
    /\ pred_file \in ScoresPredVolumes
    /\ gt_file \in ScoresGTVolumes
    /\ zooms \in Zooms
    /\ hd_lib = [g \in 1 .. SX |-> 2 * g + 1]
    /\ l \in DOMAIN label_values
    /\ pc = "call"
    /\ scores = None
    /\ final_lesionwise_metrics_df = << >> /\ lesion_wise = None
    /\ final_metrics_dict = << >> /\ csv = None /\ masks = None
    /\ gt_dilated_cc_mat = None /\ gt_label_cc = None /\ comp = 0
    /\ gt_seg_combinedByDilation_mat = None /\ hits = None

\* the call of lines 282-286 for label_values[l]
CallScores ==
    /\ pc = "call"
    /\ scores' = get_LesionWiseScores(pred_file, gt_file, label_values[l], zooms, hd_lib)
    /\ pc' = "returned"
    /\ UNCHANGED <<pred_file, gt_file, zooms, hd_lib, l, final_lesionwise_metrics_df,
                   lesion_wise, final_metrics_dict, csv, masks>>
    /\ UNCHANGED mergeVars

NextScores == CallScores

SpecScores == InitScores /\ [][NextScores]_vars

----------------------------------------------------------------------------
(* Properties *)

\* number of occurrences of x in the sequence s
Count(s, x) == Cardinality({i \in DOMAIN s : s[i] = x})

\* predicted component ids and merged ground-truth lesion ids of a result
PredIds(r) == {r.pred_label_cc.data[v] : v \in Support(r.pred_label_cc)}
LesionIds(r) == {r.gt_label_cc.data[v] : v \in Support(r.gt_label_cc)}

\* the merged lesions that share a voxel with predicted component p
LesionsOverlapping(r, p) ==
    {g \in LesionIds(r) :
        \E v \in DOMAIN r.gt_label_cc.data :
            r.gt_label_cc.data[v] = g /\ r.pred_label_cc.data[v] = p}

\* C1: a predicted component that overlaps k >= 2 merged ground-truth lesions
\* is in tp once per overlapped lesion (k times) and never in fp.
C1_MultiOverlapIsTPPerLesion ==
    pc = "returned" =>
        \A p \in PredIds(scores) :
            LET k == Cardinality(LesionsOverlapping(scores, p))
            IN k >= 2 => /\ Count(scores.tp, p) = k
                         /\ p \notin Range(scores.fp)

C1_Witness ==
    /\ pc = "returned"
    /\ \E p \in PredIds(scores) :
          /\ Cardinality(LesionsOverlapping(scores, p)) = 2
          /\ Count(scores.tp, p) = 2
          /\ Len(scores.gt_tp) = 2

\* the rows of final_lesionwise_metrics_df added by the last iteration
CurrentRows ==
    SubSeq(final_lesionwise_metrics_df,
           Len(final_lesionwise_metrics_df) - Len(scores.metric_pairs) + 1,
           Len(final_lesionwise_metrics_df))

\* a tissue has been evaluated; scores and lesion_wise are those of label_values[l]
Evaluated == pc \in {"loop", "done"} /\ l > 0

\* C2: fp holds exactly the distinct nonzero predicted component ids that occur
\* nowhere in tp, each once, and Num_FP is their number; with an empty tp these
\* are all nonzero predicted ids.
C2_FalsePositivesAreIdsAbsentFromTP ==
    Evaluated =>
        LET absent == {p \in PredIds(scores) : p # 0 /\ Count(scores.tp, p) = 0}
        IN /\ Range(scores.fp) = absent
           /\ Len(scores.fp) = Cardinality(absent)
           /\ final_metrics_dict[l].Num_FP = Cardinality(absent)
           /\ scores.tp = << >> => Range(scores.fp) = PredIds(scores)

C2_Witness ==
    /\ Evaluated
    /\ Len(scores.fp) = 1
    /\ Len(scores.tp) = 1
    /\ Cardinality(PredIds(scores)) = 2

\* C10: there is exactly one match record per merged lesion id 1..K, in ascending
\* order; each id is in exactly one of gt_tp (some predicted id intersects it)
\* and fn (none does); Num_GT_TP + Num_FN = K.
C10_OneRecordPerLesion ==
    Evaluated =>
        LET K == MaxId(scores.gt_label_cc)
            pairs == scores.metric_pairs
        IN /\ LesionIds(scores) = 1 .. K
           /\ Len(pairs) = K
           /\ \A g \in 1 .. K :
                 /\ pairs[g].gt_lesion_numbers = g
                 /\ Count(scores.gt_tp, g) + Count(scores.fn, g) = 1
                 /\ Count(scores.gt_tp, g) = 1 <=> pairs[g].predicted_lesion_numbers # << >>
           /\ Range(scores.gt_tp) \cup Range(scores.fn) = 1 .. K
           /\ final_metrics_dict[l].Num_GT_TP + final_metrics_dict[l].Num_FN = K

C10_Witness ==
    /\ Evaluated
    /\ MaxId(scores.gt_label_cc) = 2
    /\ scores.gt_tp = <<2>>
    /\ scores.fn = <<1>>

\* C4: a lesion of volume <= 5 adds nothing to the sums or to the count behind
\* LesionWise_Score_Dice and LesionWise_Score_HD95, which are those of the
\* records of volume > 5 alone, while Num_GT_TP and Num_FN count every lesion,
\* small ones included.
C4_SmallLesionsOnlyCountAsDetections ==
    Evaluated =>
        LET pairs == scores.metric_pairs
            large == SelectSeq(CurrentRows, LAMBDA r : ~(r.gt_lesion_vol <= 5))
            row == final_metrics_dict[l]
        IN /\ row.LesionWise_Score_Dice = LesionWiseDice(large, scores.fp)
           /\ row.LesionWise_Score_HD95 = LesionWiseHD95(large, scores.fp)
           /\ row.Num_GT_TP =
                 Cardinality({i \in DOMAIN pairs : pairs[i].predicted_lesion_numbers # << >>})
           /\ row.Num_FN =
                 Cardinality({i \in DOMAIN pairs : pairs[i].predicted_lesion_numbers = << >>})
           /\ \A i \in DOMAIN pairs :
                 pairs[i].gt_lesion_vol <= 5 =>
                    IF pairs[i].predicted_lesion_numbers # << >>
                    THEN Count(scores.gt_tp, pairs[i].gt_lesion_numbers) = 1
                    ELSE Count(scores.fn, pairs[i].gt_lesion_numbers) = 1

\* a lesion of volume exactly 5 that is detected, next to a larger one
C4_Witness ==
    /\ Evaluated
    /\ \E i, j \in DOMAIN scores.metric_pairs :
          /\ scores.metric_pairs[i].gt_lesion_vol = 5
          /\ scores.metric_pairs[i].predicted_lesion_numbers # << >>
          /\ scores.metric_pairs[j].gt_lesion_vol > 5
    /\ final_metrics_dict[l].Num_GT_TP >= 1
    /\ final_metrics_dict[l].LesionWise_Score_Dice # NaN

\* C5: a per-lesion HD95 that the Hausdorff primitive returned as +infinity is
\* kept as 374; no kept per-lesion row and no LesionWise_Score_HD95, in the
\* dictionary or in the written report, is infinite.
C5_InfiniteHD95BecomesPenalty ==
    /\ \A i \in DOMAIN final_lesionwise_metrics_df :
          final_lesionwise_metrics_df[i].hd95_lesionwise # Inf
    /\ \A i \in DOMAIN final_metrics_dict :
          final_metrics_dict[i].LesionWise_Score_HD95 # Inf
    /\ Evaluated =>
          \A i \in DOMAIN scores.metric_pairs :
              scores.metric_pairs[i].hd95_lesionwise = Inf
                  => CurrentRows[i].hd95_lesionwise = <<374, 1>>
    /\ pc = "done" => \A i \in DOMAIN csv : csv[i].LesionWise_Score_HD95 # Inf

\* an undetected lesion of volume > 5: its infinite distance enters the score as 374
C5_Witness ==
    /\ Evaluated
    /\ \E i \in DOMAIN scores.metric_pairs :
          /\ scores.metric_pairs[i].hd95_lesionwise = Inf
          /\ scores.metric_pairs[i].gt_lesion_vol > 5
          /\ CurrentRows[i].hd95_lesionwise = <<374, 1>>
    /\ final_metrics_dict[l].LesionWise_Score_HD95 # NaN

\* C6: with n records of volume > 5 and f false positives,
\* LesionWise_Score_Dice = (sum of their dice) / (n + f) and
\* LesionWise_Score_HD95 = (sum of their hd95 + 374 f) / (n + f);
\* both are NaN when n + f = 0.
C6_LesionWiseScoreFormulas ==
    Evaluated =>
        LET large == {i \in DOMAIN CurrentRows : CurrentRows[i].gt_lesion_vol > 5}
            n == Cardinality(large)
            f == Len(scores.fp)
            idx == SortedSeq(large)
            sumDice == SeqSum([k \in DOMAIN idx |-> CurrentRows[idx[k]].dice_lesionwise])
            sumHD == SeqSum([k \in DOMAIN idx |-> CurrentRows[idx[k]].hd95_lesionwise])
            row == final_metrics_dict[l]
        IN IF n + f = 0
           THEN /\ row.LesionWise_Score_Dice = NaN
                /\ row.LesionWise_Score_HD95 = NaN
           ELSE /\ row.LesionWise_Score_Dice = Rat(sumDice[1], sumDice[2] * (n + f))
                /\ row.LesionWise_Score_HD95 =
                      Rat(sumHD[1] + 374 * f * sumHD[2], sumHD[2] * (n + f))

\* two scored lesions and a false positive
C6_Witness ==
    /\ Evaluated
    /\ Len(scores.fp) = 1
    /\ Len(CurrentRows) = 2
    /\ \A i \in DOMAIN CurrentRows : CurrentRows[i].gt_lesion_vol > 5
    /\ final_metrics_dict[l].LesionWise_Score_Dice # <<0, 1>>

\* nothing to score: no lesion of volume > 5 and no false positive
C6_WitnessNaN ==
    /\ Evaluated
    /\ Len(scores.fp) = 0
    /\ final_metrics_dict[l].LesionWise_Score_Dice = NaN
    /\ final_metrics_dict[l].LesionWise_Score_HD95 = NaN

\* C8: when the two volumes differ in shape, dice raises for every tissue type,
\* no tissue is evaluated, no row is built and no report is written.
C8_ShapeMismatchAbortsCase ==
    pred_file.shape # gt_file.shape =>
        /\ \A i \in DOMAIN label_values : ScoresRaise(pred_file, gt_file, label_values[i])
        /\ pc \in {"loop", "raised"}
        /\ l = 0
        /\ final_metrics_dict = << >>
        /\ csv = None

C8_Witness ==
    /\ pred_file.shape # gt_file.shape
    /\ pc = "raised"
    /\ Support(pred_file) # {}
    /\ Support(gt_file) # {}

\* the foreground labels of the tissue types
Foreground(tissue_type) ==
    IF tissue_type = "WT" THEN {1, 2, 3}
    ELSE IF tissue_type = "TC" THEN {1, 3}
    ELSE {3}

IsMaskOf(mask, volume, tissue_type) ==
    /\ mask.shape = volume.shape
    /\ \A v \in Vox(volume.shape) :
          mask.data[v] = IF volume.data[v] \in Foreground(tissue_type) THEN 1 ELSE 0

SubMask(a, b) == \A v \in DOMAIN a.data : a.data[v] = 1 => b.data[v] = 1

\* C7: each mask is 1 exactly on the voxels whose label is in the foreground set
\* of the tissue type, for the prediction and for the ground truth alike, and
\* the ET mask lies within the TC mask, which lies within the WT mask.
C7_TissueMasks ==
    /\ \A i \in DOMAIN masks :
          /\ IsMaskOf(masks[i][1], pred_file, label_values[i])
          /\ IsMaskOf(masks[i][2], gt_file, label_values[i])
    /\ Len(masks) = 3 =>
          \A k \in 1 .. 2 : /\ SubMask(masks[3][k], masks[2][k])
                            /\ SubMask(masks[2][k], masks[1][k])

\* a prediction with the labels 4 and 2 and a ground truth with the labels 1 and 3
C7_Witness ==
    /\ Len(masks) = 3
    /\ {pred_file.data[v] : v \in DOMAIN pred_file.data} = {2, 4}
    /\ {gt_file.data[v] : v \in DOMAIN gt_file.data} = {1, 3}
    /\ Support(masks[2][2]) # {}
    /\ Support(masks[1][1]) # {}

\* C9: after every iteration and at return, each voxel got a nonzero term from
\* at most one iteration; the map is 0 where the original component map is 0
\* and elsewhere the dilated component id of the voxel, once the loop has
\* reached that id.
C9_MergeAddsOneTermPerVoxel ==
    pc \in {"merge", "merged"} =>
        \A v \in Vox(gt_label_cc.shape) :
            /\ hits[v] <= 1
            /\ gt_seg_combinedByDilation_mat.data[v] =
                  IF gt_label_cc.data[v] = 0 \/ gt_dilated_cc_mat.data[v] > comp
                  THEN 0
                  ELSE gt_dilated_cc_mat.data[v]
            /\ pc = "merged" =>
                  gt_seg_combinedByDilation_mat.data[v] =
                      IF gt_label_cc.data[v] = 0 THEN 0 ELSE gt_dilated_cc_mat.data[v]

\* two iterations, each the only one to write its voxel
C9_Witness ==
    /\ pc = "merged"
    /\ comp = 2
    /\ \E u, v \in Vox(gt_label_cc.shape) :
          /\ hits[u] = 1
          /\ hits[v] = 1
          /\ gt_seg_combinedByDilation_mat.data[u] = 1
          /\ gt_seg_combinedByDilation_mat.data[v] = 2

\* distance between voxels counted in voxel steps (face, edge or corner)
Chebyshev(u, v) == Max({Abs(u[1] - v[1]), Abs(u[2] - v[2]), Abs(u[3] - v[3])})

\* the voxels of one original ground-truth component
ComponentVoxels(id) == {v \in Vox(gt_label_cc.shape) : gt_label_cc.data[v] = id}

\* number of voxels between two components where they are closest
Gap(i, j) ==
    Min({Chebyshev(u, v) : u \in ComponentVoxels(i), v \in ComponentVoxels(j)}) - 1

MergedId(id) ==
    gt_seg_combinedByDilation_mat.data[CHOOSE v \in ComponentVoxels(id) : TRUE]

\* the offset of two voxels along each axis
AxisOffsets(u, v) == <<Abs(u[1] - v[1]), Abs(u[2] - v[2]), Abs(u[3] - v[3])>>

\* an offset of 3 along at least two axes and of 2 or 3 along the remaining one
CornerOffset(u, v) ==
    LET d == AxisOffsets(u, v)
    IN /\ \A k \in 1 .. 3 : d[k] \in {2, 3}
       /\ Cardinality({k \in 1 .. 3 : d[k] = 3}) >= 2

\* two voxels close enough for their dilations to meet: at most two voxels
\* between them along every axis, the corner offsets excepted
Fuses(u, v) ==
    \/ Chebyshev(u, v) <= 2
    \/ Chebyshev(u, v) = 3 /\ ~CornerOffset(u, v)

\* some voxel of component i and some voxel of component j fuse
ComponentsFuse(i, j) ==
    \E u \in ComponentVoxels(i), v \in ComponentVoxels(j) : Fuses(u, v)

\* the ground truth splits into two parts, one holding component i and the
\* other component j, with no voxel of one part fusing with a voxel of the other
SplitApart(i, j) ==
    \E S \in SUBSET (1 .. MaxId(gt_label_cc)) :
        /\ i \in S
        /\ j \notin S
        /\ \A a \in S, b \in (1 .. MaxId(gt_label_cc)) \ S : ~ComponentsFuse(a, b)

\* the ground truth splits into two parts, one holding component i and the
\* other component j, with at least three voxels between the parts
SplitByWideGap(i, j) ==
    \E S \in SUBSET (1 .. MaxId(gt_label_cc)) :
        /\ i \in S
        /\ j \notin S
        /\ \A a \in S, b \in (1 .. MaxId(gt_label_cc)) \ S : Gap(a, b) >= 3

\* C3 as stated: components a single voxel apart get one merged id, components
\* more than one voxel apart get distinct merged ids.
C3_AsStated ==
    pc = "merged" =>
        \A i, j \in 1 .. MaxId(gt_label_cc) :
            i # j => /\ Gap(i, j) = 1 => MergedId(i) = MergedId(j)
                     /\ Gap(i, j) > 1 => MergedId(i) # MergedId(j)

\* C3, amended: components a single voxel apart get one merged id, and so do
\* components holding two voxels that fuse (up to two voxels between them along
\* every axis, unless the offset is 3 along two axes and 2 or 3 along the
\* third); components get distinct merged ids when the ground truth splits
\* into two parts, one holding each, with no fusing pair of voxels across the
\* parts, in particular when the parts are at least three voxels apart.
C3_MergeByOffset ==
    pc = "merged" =>
        \A i, j \in 1 .. MaxId(gt_label_cc) :
            i # j => /\ Gap(i, j) = 1 => MergedId(i) = MergedId(j)
                     /\ ComponentsFuse(i, j) => MergedId(i) = MergedId(j)
                     /\ SplitApart(i, j) => MergedId(i) # MergedId(j)
                     /\ SplitByWideGap(i, j) => MergedId(i) # MergedId(j)

\* two components one voxel apart along all three axes, merged
C3_Witness ==
    /\ pc = "merged"
    /\ \E i, j \in 1 .. MaxId(gt_label_cc) :
          /\ i # j
          /\ Gap(i, j) = 1
          /\ MergedId(i) = MergedId(j)
          /\ \E v \in ComponentVoxels(i), w \in ComponentVoxels(j) :
                AxisOffsets(v, w) = <<2, 2, 2>>

\* two components two voxels apart along one axis only, merged
C3_WitnessAxisGapTwo ==
    /\ pc = "merged"
    /\ gt_label_cc.shape = CubeShape
    /\ \E i, j \in 1 .. MaxId(gt_label_cc) :
          /\ Gap(i, j) = 2
          /\ MergedId(i) = MergedId(j)
          /\ \E v \in ComponentVoxels(i), w \in ComponentVoxels(j) :
                AxisOffsets(v, w) = <<3, 0, 0>>

\* two components two voxels apart along all three axes, distinct
C3_WitnessCornerGapTwo ==
    /\ pc = "merged"
    /\ \E i, j \in 1 .. MaxId(gt_label_cc) :
          /\ Gap(i, j) = 2
          /\ SplitApart(i, j)
          /\ MergedId(i) # MergedId(j)
          /\ \E v \in ComponentVoxels(i), w \in ComponentVoxels(j) :
                AxisOffsets(v, w) = <<3, 3, 3>>

\* two components that do not fuse, merged through a third between them
C3_WitnessChain ==
    /\ pc = "merged"
    /\ \E i, j \in 1 .. MaxId(gt_label_cc) :
          /\ i # j
          /\ ~ComponentsFuse(i, j)
          /\ Gap(i, j) >= 3
          /\ MergedId(i) = MergedId(j)

\* a part of two merged components, at least three voxels from a third
C3_WitnessApart ==
    /\ pc = "merged"
    /\ \E i, j, k \in 1 .. MaxId(gt_label_cc) :
          /\ i # k
          /\ MergedId(i) = MergedId(k)
          /\ SplitByWideGap(i, j)
          /\ MergedId(i) # MergedId(j)

====
